---------------------------- MODULE Spec2Model ----------------------------
(***************************************************************************)
(* State-machine model of the viewer core of swayimg (src/src/viewer.c):   *)
(* viewport position and scale, position fixup, scale policies and zoom,   *)
(* navigation through the image list, the animation and slideshow timers   *)
(* and the action dispatcher.                                              *)
(*                                                                         *)
(* Numbers.  ssize_t/size_t values are integers.  float and double values  *)
(* (ctx.scale and the temporaries of set_scale, zoom_image, rotate_image   *)
(* and reset_state) are exact rationals <<n, d>> in lowest terms, d > 0.   *)
(* The frame sizes, window sizes and zoom percents the model draws from    *)
(* are chosen so that every scale the code computes is a dyadic rational   *)
(* with a short mantissa, i.e. is exactly the value the float arithmetic   *)
(* of the code yields.  A double that is converted to ssize_t after an     *)
(* inexact division is modelled by DoubleToInt, which allows both          *)
(* truncations when the exact value is an integer.                         *)
(***************************************************************************)
EXTENDS Integers, Sequences, FiniteSets, TLC

(***************************************************************************)
(* Program constants                                                       *)
(***************************************************************************)
MIN_SCALE == 10

MAX_SCALE == 100

scale_names == <<"optimal", "fit", "width", "height", "fill", "real">>

position_names == <<"top", "center", "bottom", "left", "right", "topleft",
                    "topright", "bottomleft", "bottomright">>

IMGLIST_INVALID == -1

NULL == "<null>"

(***************************************************************************)
(* Rational arithmetic standing for the C float/double arithmetic          *)
(***************************************************************************)
Abs(a) == IF a < 0 THEN -a ELSE a

Range(f) == {f[i] : i \in DOMAIN f}

RECURSIVE GCD(_, _)
GCD(a, b) == IF b = 0 THEN a ELSE GCD(b, a % b)

Norm(n, d) ==
    LET g == GCD(Abs(n), Abs(d))
        s == IF d < 0 THEN -1 ELSE 1
    IN  IF n = 0 THEN <<0, 1>> ELSE <<s * (n \div g), s * (d \div g)>>

Rat(i) == <<i, 1>>

RAdd(p, q) == Norm(p[1] * q[2] + q[1] * p[2], p[2] * q[2])

RSub(p, q) == Norm(p[1] * q[2] - q[1] * p[2], p[2] * q[2])

RMul(p, q) == Norm(p[1] * q[1], p[2] * q[2])

RDiv(p, q) == Norm(p[1] * q[2], p[2] * q[1])

\* p < q.  When one denominator divides the other (always so for two float
\* values, whose denominators are powers of two) the comparison is made by
\* division, so that no product leaves the 32-bit integers of the checker.
RLt(p, q) ==
    IF q[2] % p[2] = 0
    THEN p[1] <= (q[1] - 1) \div (q[2] \div p[2])
    ELSE IF p[2] % q[2] = 0
         THEN p[1] \div (p[2] \div q[2]) < q[1]
         ELSE p[1] * q[2] < q[1] * p[2]

RLe(p, q) == ~RLt(q, p)

RMin(p, q) == IF RLt(q, p) THEN q ELSE p

RMax(p, q) == IF RLt(p, q) THEN q ELSE p

\* Conversion of a double to ssize_t: truncation toward zero.
Trunc(p) == IF p[1] >= 0 THEN p[1] \div p[2] ELSE -((-p[1]) \div p[2])

\* floor() of a double.
Floor(p) == p[1] \div p[2]

\* The odd part of a positive integer, and whether n/d is a dyadic rational.
RECURSIVE OddPart(_)
OddPart(n) == IF n = 0 THEN 1 ELSE IF n % 2 = 0 THEN OddPart(n \div 2) ELSE n

IsDyadic(p) == OddPart(p[2]) = 1

\* Binary long division: the quotient (q + r/d) / 2^s of two positive
\* integers carried on until q has the 24 bits of a float mantissa.
RECURSIVE Mantissa(_, _, _, _)
Mantissa(q, r, d, s) ==
    IF q >= 2^23 THEN <<q, r, s>>
    ELSE Mantissa(2 * q + (IF 2 * r >= d THEN 1 ELSE 0), (2 * r) % d, d, s + 1)

\* The next k bits of the same quotient.
RECURSIVE LowBits(_, _, _, _)
LowBits(l, r, d, k) ==
    IF k = 0 THEN <<l, r>>
    ELSE LowBits(2 * l + (IF 2 * r >= d THEN 1 ELSE 0), (2 * r) % d, d, k - 1)

\* (float)n / d of two positive integers: the quotient rounded to the
\* nearest float (24-bit mantissa, ties to even).
float_div(n, d) ==
    LET p  == Norm(n, d)
        m  == Mantissa(n \div d, n % d, d, 0)
        up == 2 * m[2] > d \/ (2 * m[2] = d /\ m[1] % 2 = 1)
    IN  IF IsDyadic(p) THEN p
        ELSE Norm(m[1] + (IF up THEN 1 ELSE 0), 2^(m[3]))

\* 1.0 / q for a positive float q, stored in a float: the double quotient
\* (53-bit mantissa: 24 bits and 29 more, ties to even), then rounded to
\* the nearest float.
float_recip(q) ==
    LET a   == q[1]
        b   == q[2]
        m   == Mantissa(b \div a, b % a, a, 0)
        lo  == LowBits(0, m[2], a, 29)
        l53 == lo[1] + (IF 2 * lo[2] > a \/ (2 * lo[2] = a /\ lo[1] % 2 = 1)
                        THEN 1 ELSE 0)
        up  == l53 > 2^28 \/ (l53 = 2^28 /\ m[1] % 2 = 1)
    IN  IF OddPart(a) = 1 THEN Norm(b, a)
        ELSE Norm(m[1] + (IF up THEN 1 ELSE 0), 2^(m[3]))

\* Conversion to ssize_t of a double whose exact value is p.  When every
\* intermediate of its computation was exact the result is Trunc(p).  When
\* one was rounded, the double lies within a few ulp of p, and the
\* truncation can fall on either side only if p is a non-zero integer.
DoubleToInt(p, exact) ==
    IF exact \/ p[2] # 1 \/ p[1] = 0
    THEN {Trunc(p)}
    ELSE {p[1], IF p[1] > 0 THEN p[1] - 1 ELSE p[1] + 1}


(***************************************************************************)
(* State                                                                   *)
(***************************************************************************)
VARIABLES
    img_x, img_y,        \* ctx.img_x, ctx.img_y: top left corner of the image
    img_w, img_h,        \* ctx.img_w, ctx.img_h: last committed image size
    frame,               \* ctx.frame: index of the current frame
    fixed,               \* ctx.fixed: fix image position
    scale_init,          \* ctx.scale_init: current scale policy (0..5)
    keep_zoom,           \* ctx.keep_zoom
    position,            \* ctx.position: anchor (a name of position_names)
    scale,               \* ctx.scale: rational <<n, d>>
    animation_enable,    \* ctx.animation_enable
    animation_timer,     \* timerfd behind ctx.animation_fd: armed ms, 0 = disarmed
    slideshow_enable,    \* ctx.slideshow_enable
    slideshow_timer,     \* timerfd behind ctx.slideshow_fd: armed s, 0 = disarmed
    animation_fd,        \* ctx.animation_fd: -1 when timerfd_create failed
    slideshow_fd,        \* ctx.slideshow_fd: -1 when timerfd_create failed
    current,             \* fetcher_current()->index
    pm_w, pm_h,          \* pixmap size of the current image's frames
    loadable,            \* per list entry: whether opening it succeeds
    wnd_w, wnd_h,        \* ui_get_width(), ui_get_height()
    exit_req,            \* app_exit() was called
    redraw,              \* app_redraw() was called while handling the last event
    ev,                  \* type of the last event handled
    moves,               \* viewport moves made since the last forced fixup
    probe                \* bookkeeping of the function-level specifications

ctx_vars == <<img_x, img_y, img_w, img_h, frame, fixed, scale_init, keep_zoom,
              position, scale, animation_enable, animation_timer,
              slideshow_enable, slideshow_timer, animation_fd, slideshow_fd>>

env_vars == <<current, pm_w, pm_h, loadable, wnd_w, wnd_h>>

vars == <<ctx_vars, env_vars, exit_req, redraw, ev, moves, probe>>

(***************************************************************************)
(* Position fixup (fixup_position)                                         *)
(***************************************************************************)
\* img_width = ctx.scale * pm->width, converted to ssize_t.
ScaledSize(sc, pm) == Trunc(RMul(sc, Rat(pm)))

\* The first switch with the case of position_right copied from
\* position_center.
AnchorX_right_as_center(pos, img_width, wnd_width) ==
    CASE pos = "top"         -> wnd_width \div 2 - img_width \div 2
      [] pos = "center"      -> wnd_width \div 2 - img_width \div 2
      [] pos = "bottom"      -> wnd_width \div 2 - img_width \div 2
      [] pos = "left"        -> 0
      [] pos = "right"       -> wnd_width \div 2 - img_width \div 2
      [] pos = "topleft"     -> 0
      [] pos = "topright"    -> wnd_width - img_width
      [] pos = "bottomleft"  -> 0
      [] pos = "bottomright" -> wnd_width - img_width

\* First switch of fixup_position: the x coordinate of each anchor.
AnchorX(pos, img_width, wnd_width) ==
    CASE pos = "top"         -> wnd_width \div 2 - img_width \div 2
      [] pos = "center"      -> wnd_width \div 2 - img_width \div 2
      [] pos = "bottom"      -> wnd_width \div 2 - img_width \div 2
      [] pos = "left"        -> 0
      [] pos = "right"       -> wnd_width - img_width
      [] pos = "topleft"     -> 0
      [] pos = "topright"    -> wnd_width - img_width
      [] pos = "bottomleft"  -> 0
      [] pos = "bottomright" -> wnd_width - img_width

\* Second switch of fixup_position: the y coordinate of each anchor.
AnchorY(pos, img_height, wnd_height) ==
    CASE pos = "top"         -> 0
      [] pos = "center"      -> wnd_height \div 2 - img_height \div 2
      [] pos = "bottom"      -> wnd_height - img_height
      [] pos = "left"        -> wnd_height \div 2 - img_height \div 2
      [] pos = "right"       -> wnd_height \div 2 - img_height \div 2
      [] pos = "topleft"     -> 0
      [] pos = "topright"    -> 0
      [] pos = "bottomleft"  -> wnd_height - img_height
      [] pos = "bottomright" -> wnd_height - img_height

\* "bind to window border": the two tests of one axis under ctx.fixed.
\* The x tests and the y tests read only their own axis, so one operator
\* serves both.
BindAxis(c, img_size, wnd_size) ==
    LET c1 == IF c > 0 /\ c + img_size > wnd_size THEN 0 ELSE c
    IN  IF c1 < 0 /\ c1 + img_size < wnd_size THEN wnd_size - img_size ELSE c1

\* The clamp with "-=" for "=" in its first assignment.
ClampAxis_subtracting(c, img_size, wnd_size) ==
    LET c1 == IF c + img_size < 0 THEN c - img_size ELSE c
    IN  IF c1 > wnd_size THEN wnd_size ELSE c1

\* The clamp without its far-side test ("ctx.img_x > wnd_width").
ClampAxis_near_side_only(c, img_size, wnd_size) ==
    IF c + img_size < 0 THEN -img_size ELSE c

\* "don't let canvas to be far out of window": the two tests of one axis.
ClampAxis(c, img_size, wnd_size) ==
    LET c1 == IF c + img_size < 0 THEN -img_size ELSE c
    IN  IF c1 > wnd_size THEN wnd_size ELSE c1

\* One axis before the final clamp.
PreClampX(x, force, fx, pos, img_width, wnd_width) ==
    LET x1 == IF force \/ (fx /\ img_width <= wnd_width)
              THEN AnchorX(pos, img_width, wnd_width) ELSE x
    IN  IF fx THEN BindAxis(x1, img_width, wnd_width) ELSE x1

PreClampY(y, force, fx, pos, img_height, wnd_height) ==
    LET y1 == IF force \/ (fx /\ img_height <= wnd_height)
              THEN AnchorY(pos, img_height, wnd_height) ELSE y
    IN  IF fx THEN BindAxis(y1, img_height, wnd_height) ELSE y1

\* fixup_position(force) applied to position <<x, y>> for scale sc, a
\* current frame of pw x ph pixels and a window of ww x wh.
fixup_position(x, y, force, sc, pw, ph, ww, wh) ==
    LET img_width  == ScaledSize(sc, pw)
        img_height == ScaledSize(sc, ph)
    IN  << ClampAxis(PreClampX(x, force, fixed, position, img_width, ww),
                     img_width, ww),
           ClampAxis(PreClampY(y, force, fixed, position, img_height, wh),
                     img_height, wh) >>

\* Whether the off-window clamp of fixup_position changes either axis.
ClampFires(x, y, force, sc, pw, ph, ww, wh) ==
    LET img_width  == ScaledSize(sc, pw)
        img_height == ScaledSize(sc, ph)
        px == PreClampX(x, force, fixed, position, img_width, ww)
        py == PreClampY(y, force, fixed, position, img_height, wh)
    IN  \/ ClampAxis(px, img_width, ww) # px
        \/ ClampAxis(py, img_height, wh) # py

(***************************************************************************)
(* The image list and the fetcher.  Both are collaborators whose code is   *)
(* outside viewer.c; they are modelled from the specification: the list is *)
(* an ordered sequence of entries 0 .. ListSize-1, a query returns a       *)
(* candidate index or IMGLIST_INVALID, and opening an entry succeeds or    *)
(* fails per entry.                                                        *)
(***************************************************************************)
ListSize == 3

Entries == 0 .. ListSize - 1

\* Frame size, per-frame durations (ms) and directory of the list entries.
FrameSizeTable == << <<20, 20>>, <<40, 20>>, <<5, 5>> >>

DurationTable == << <<100>>, <<100, 0, 50>>, <<0>> >>

DirTable == <<0, 0, 1>>

Slot(i) == (i % 3) + 1

FrameWidth(i) == FrameSizeTable[Slot(i)][1]

FrameHeight(i) == FrameSizeTable[Slot(i)][2]

NumFrames(i) == Len(DurationTable[Slot(i)])

Duration(i, f) == DurationTable[Slot(i)][f + 1]

Dir(i) == DirTable[Slot(i)] + (i \div 3)

image_list_first == IF ListSize > 0 THEN 0 ELSE IMGLIST_INVALID

image_list_last == IF ListSize > 0 THEN ListSize - 1 ELSE IMGLIST_INVALID

image_list_next_file(index) ==
    IF index + 1 < ListSize THEN index + 1 ELSE IMGLIST_INVALID

image_list_prev_file(index) ==
    IF index > 0 THEN index - 1 ELSE IMGLIST_INVALID

image_list_next_dir(index) ==
    LET later == {j \in Entries : j > index /\ Dir(j) # Dir(index)}
    IN  IF later = {} THEN IMGLIST_INVALID
        ELSE CHOOSE j \in later : \A k \in later : j <= k

image_list_prev_dir(index) ==
    LET earlier == {j \in Entries : j < index /\ Dir(j) # Dir(index)}
    IN  IF earlier = {} THEN IMGLIST_INVALID
        ELSE CHOOSE j \in earlier : \A k \in earlier : j >= k

\* image_list_skip: the query of "skip current", which continues forward.
image_list_skip(index) == image_list_next_file(index)

\* fetcher_open(index): whether the entry loads.
fetcher_open(index) == loadable[index]

\* fetcher_reset(index): re-fetch the entry; when it is gone, open the next
\* entry that loads.  The index that ends up current, or IMGLIST_INVALID.
RECURSIVE fetcher_reset(_)
fetcher_reset(index) ==
    IF index = IMGLIST_INVALID THEN IMGLIST_INVALID
    ELSE IF loadable[index] THEN index
    ELSE fetcher_reset(image_list_next_file(index))

(***************************************************************************)
(* Parameter strings.  str_to_num and str_index are library code outside   *)
(* viewer.c; they are modelled on the parameter strings the model draws.   *)
(***************************************************************************)
NumTable == [s \in {"0", "10", "50", "100", "900", "1000", "1001", "-50",
                    "-900", "-1000"} |->
             CASE s = "0" -> 0 [] s = "10" -> 10 [] s = "50" -> 50
               [] s = "100" -> 100 [] s = "900" -> 900 [] s = "1000" -> 1000
               [] s = "1001" -> 1001 [] s = "-50" -> 0 - 50
               [] s = "-900" -> 0 - 900 [] s = "-1000" -> 0 - 1000]

\* str_to_num(text, 0, &val, 0): <<whether text is a number, the number>>.
str_to_num(text) ==
    IF text \in DOMAIN NumTable THEN <<TRUE, NumTable[text]>> ELSE <<FALSE, 0>>

\* str_index(array, value, 0): the 0-based index of value in array, or -1.
str_index(array, value) ==
    IF \E i \in DOMAIN array : array[i] = value
    THEN (CHOOSE i \in DOMAIN array : array[i] = value) - 1
    ELSE -1

(***************************************************************************)
(* Scale policies (set_scale) and percent zoom (zoom_image)                *)
(***************************************************************************)
\* The scale set_scale(sc) stores in ctx.scale; sc is the 0-based value of
\* enum fixed_scale.  scale_w = 1.0 / ((float)pm->width / wnd_width): a
\* float quotient, its reciprocal in double, and that stored in a float.
set_scale(sc, pw, ph, ww, wh) ==
    LET scale_w == float_recip(float_div(pw, ww))
        scale_h == float_recip(float_div(ph, wh))
    IN  CASE sc = 0 -> RMin(RMin(scale_w, scale_h), Rat(1))
          [] sc = 1 -> RMin(scale_w, scale_h)
          [] sc = 2 -> scale_w
          [] sc = 3 -> scale_h
          [] sc = 4 -> RMax(scale_w, scale_h)
          [] sc = 5 -> Rat(1)

\* zoom_image's new scale with the upper threshold tested on the old scale.
zoom_scale_clamping_old_scale(sc, percent, pw, ph) ==
    LET step == RMul(RDiv(sc, Rat(100)), Rat(percent))
    IN  IF percent > 0
        THEN IF RLt(Rat(MAX_SCALE), sc) THEN Rat(MAX_SCALE)
             ELSE RAdd(sc, step)
        ELSE LET scale_w   == RDiv(Rat(MIN_SCALE), Rat(pw))
                 scale_h   == RDiv(Rat(MIN_SCALE), Rat(ph))
                 scale_min == RMax(scale_w, scale_h)
             IN  RMax(RAdd(sc, step), scale_min)

\* The scale a percent zoom stores in ctx.scale.
zoom_scale(sc, percent, pw, ph) ==
    LET step == RMul(RDiv(sc, Rat(100)), Rat(percent))
    IN  IF percent > 0
        THEN RMin(RAdd(sc, step), Rat(MAX_SCALE))
        ELSE LET scale_w   == RDiv(Rat(MIN_SCALE), Rat(pw))
                 scale_h   == RDiv(Rat(MIN_SCALE), Rat(ph))
                 scale_min == RMax(scale_w, scale_h)
             IN  RMax(RAdd(sc, step), scale_min)

\* "restore center" with the centre taken after ctx.scale was updated.
zoom_axis_center_after_update(c, wnd, sc, sc2) ==
    LET wnd_half == Norm(wnd, 2)
        q1       == RDiv(wnd_half, sc2)
        q2       == RDiv(Rat(c), sc2)
        center   == RSub(q1, q2)
    IN  DoubleToInt(RSub(wnd_half, RMul(center, sc2)),
                    IsDyadic(q1) /\ IsDyadic(q2))

\* "restore center": the values ctx.img_x (ctx.img_y) can take on one axis
\* before the trailing fixup, for window size wnd on that axis, old
\* coordinate c, old scale sc and new scale sc2.
zoom_axis(c, wnd, sc, sc2) ==
    LET wnd_half == Norm(wnd, 2)
        q1       == RDiv(wnd_half, sc)
        q2       == RDiv(Rat(c), sc)
        center   == RSub(q1, q2)
    IN  DoubleToInt(RSub(wnd_half, RMul(center, sc2)),
                    IsDyadic(q1) /\ IsDyadic(q2))

(***************************************************************************)
(* The handlers of viewer.c as functions of the viewer context.  A context *)
(* record c holds the mutable fields of struct viewer plus the two outward *)
(* requests (app_redraw, app_exit) made while the event is handled; an     *)
(* image record im holds the fetcher's current image.                      *)
(***************************************************************************)
SlideshowTime == 5

Ctx == [img_x |-> img_x, img_y |-> img_y, img_w |-> img_w, img_h |-> img_h,
        frame |-> frame, scale_init |-> scale_init, keep_zoom |-> keep_zoom,
        scale |-> scale,
        animation_enable |-> animation_enable,
        animation_timer |-> animation_timer,
        slideshow_enable |-> slideshow_enable,
        slideshow_timer |-> slideshow_timer,
        redraw |-> FALSE, exit |-> FALSE]

Img == [index |-> current, w |-> pm_w, h |-> pm_h]

\* The image the fetcher holds after opening list entry index.
Opened(index) ==
    [index |-> index, w |-> FrameWidth(index), h |-> FrameHeight(index)]

\* c with app_redraw() called.
app_redraw(c) == [c EXCEPT !.redraw = TRUE]

\* c with app_exit(0) called.
app_exit(c) == [c EXCEPT !.exit = TRUE]

\* c with the position fixup run.
fixup(c, im, force, ww, wh) ==
    LET p == fixup_position(c.img_x, c.img_y, force, c.scale, im.w, im.h,
                            ww, wh)
    IN  [c EXCEPT !.img_x = p[1], !.img_y = p[2]]

\* The step of move_image in percent: 10 unless params is a number in
\* 1..1000.
move_step(params) ==
    LET r == str_to_num(params)
    IN  IF params # NULL /\ r[1] /\ r[2] > 0 /\ r[2] <= 1000
        THEN r[2] ELSE 10

\* move_image testing only img_x before it requests the redraw.
move_image_redraw_on_x_only(c, im, horizontal, positive, params, ww, wh) ==
    LET step  == IF positive THEN move_step(params) ELSE -move_step(params)
        moved == IF horizontal
                 THEN [c EXCEPT !.img_x = c.img_x + (ww \div 100) * step]
                 ELSE [c EXCEPT !.img_y = c.img_y + (wh \div 100) * step]
        fixd  == fixup(moved, im, FALSE, ww, wh)
    IN  IF fixd.img_x # c.img_x THEN app_redraw(fixd) ELSE fixd

move_image(c, im, horizontal, positive, params, ww, wh) ==
    LET step  == IF positive THEN move_step(params) ELSE -move_step(params)
        moved == IF horizontal
                 THEN [c EXCEPT !.img_x = c.img_x + (ww \div 100) * step]
                 ELSE [c EXCEPT !.img_y = c.img_y + (wh \div 100) * step]
        fixd  == fixup(moved, im, FALSE, ww, wh)
    IN  IF fixd.img_x # c.img_x \/ fixd.img_y # c.img_y
        THEN app_redraw(fixd) ELSE fixd

\* rotate_image: the image record after image_rotate and the context.
Rotated(im) == [im EXCEPT !.w = im.h, !.h = im.w]

rotate_image(c, im, ww, wh) ==
    LET diff  == im.w - im.h
        shift == Trunc(RDiv(RMul(c.scale, Rat(diff)), Rat(2)))
        moved == [c EXCEPT !.img_x = c.img_x + shift,
                           !.img_y = c.img_y - shift]
    IN  app_redraw(fixup(moved, Rotated(im), FALSE, ww, wh))

\* set_scale(sc) on the context: the policy scale, then a forced fixup.
apply_scale(c, im, sc, ww, wh) ==
    fixup([c EXCEPT !.scale = set_scale(sc, im.w, im.h, ww, wh)],
          im, TRUE, ww, wh)

\* scale_image(params)
scale_image(c, im, params, ww, wh) ==
    IF params # NULL /\ params # ""
    THEN LET fixed_scale == str_index(scale_names, params)
         IN  IF fixed_scale >= 0
             THEN app_redraw(apply_scale([c EXCEPT !.scale_init = fixed_scale],
                                         im, fixed_scale, ww, wh))
             ELSE c
    ELSE LET next == IF c.scale_init + 1 >= Len(scale_names)
                     THEN 0 ELSE c.scale_init + 1
         IN  app_redraw(apply_scale([c EXCEPT !.scale_init = next],
                                    im, next, ww, wh))

\* Whether the zoom parameter is a percent the code accepts.
zoom_percent_ok(params) ==
    LET r == str_to_num(params)
    IN  r[1] /\ r[2] # 0 /\ r[2] > -1000 /\ r[2] < 1000

\* zoom_image(params): the set of contexts it can leave.
zoom_image(c, im, params, ww, wh) ==
    IF params = NULL \/ params = ""
    THEN {c}
    ELSE IF str_index(scale_names, params) >= 0
    THEN {app_redraw(apply_scale(c, im, str_index(scale_names, params),
                                 ww, wh))}
    ELSE IF zoom_percent_ok(params)
    THEN LET sc2 == zoom_scale(c.scale, str_to_num(params)[2], im.w, im.h)
         IN  { app_redraw(fixup([c EXCEPT !.scale = sc2, !.img_x = x,
                                          !.img_y = y],
                                im, FALSE, ww, wh)) :
                 x \in zoom_axis(c.img_x, ww, c.scale, sc2),
                 y \in zoom_axis(c.img_y, wh, c.scale, sc2) }
    ELSE {app_redraw(c)}

toggle_keep_zoom(c) == app_redraw([c EXCEPT !.keep_zoom = ~c.keep_zoom])

\* timerfd_settime(fd, 0, &ts, NULL): the time the timer behind fd is armed
\* with afterwards (0 = disarmed).  With fd = -1 the call fails and no timer
\* is ever armed.
timerfd_settime(fd, value) == IF fd = -1 THEN 0 ELSE value

\* slideshow_ctl arming or disarming the timer without storing the flag.
slideshow_ctl_flag_unchanged(c, enable) ==
    [c EXCEPT !.slideshow_timer =
                  timerfd_settime(slideshow_fd,
                                  IF enable THEN SlideshowTime ELSE 0)]

\* animation_ctl without the test of the number of frames.
animation_ctl_any_frame_count(c, im, enable) ==
    LET duration == Duration(im.index, c.frame)
        on       == enable /\ duration # 0
    IN  [c EXCEPT !.animation_enable = on,
                  !.animation_timer =
                      timerfd_settime(animation_fd, IF on THEN duration ELSE 0)]

\* animation_ctl reading the duration of the first frame.
animation_ctl_first_frame_duration(c, im, enable) ==
    LET duration == Duration(im.index, 0)
        on       == enable /\ NumFrames(im.index) > 1 /\ duration # 0
    IN  [c EXCEPT !.animation_enable = on,
                  !.animation_timer =
                      timerfd_settime(animation_fd, IF on THEN duration ELSE 0)]

\* animation_ctl ignoring its argument: the timer is armed whenever the
\* image is animated.
animation_ctl_ignoring_enable(c, im, enable) ==
    LET duration == Duration(im.index, c.frame)
        on       == NumFrames(im.index) > 1 /\ duration # 0
    IN  [c EXCEPT !.animation_enable = on,
                  !.animation_timer =
                      timerfd_settime(animation_fd, IF on THEN duration ELSE 0)]

\* slideshow_ctl(false) stopping the animation as well.
slideshow_ctl_stopping_animation(c, enable) ==
    [c EXCEPT !.slideshow_enable = enable,
              !.slideshow_timer =
                  timerfd_settime(slideshow_fd,
                                  IF enable THEN SlideshowTime ELSE 0),
              !.animation_enable = IF enable THEN @ ELSE FALSE,
              !.animation_timer = IF enable THEN @ ELSE 0]

\* slideshow_ctl arming the timer whatever its argument.
slideshow_ctl_always_arming(c, enable) ==
    [c EXCEPT !.slideshow_enable = enable,
              !.slideshow_timer = timerfd_settime(slideshow_fd, SlideshowTime)]

\* animation_ctl(enable)
animation_ctl(c, im, enable) ==
    LET duration == Duration(im.index, c.frame)
        on       == enable /\ NumFrames(im.index) > 1 /\ duration # 0
    IN  [c EXCEPT !.animation_enable = on,
                  !.animation_timer =
                      timerfd_settime(animation_fd, IF on THEN duration ELSE 0)]

\* slideshow_ctl(enable)
slideshow_ctl(c, enable) ==
    [c EXCEPT !.slideshow_enable = enable,
              !.slideshow_timer =
                  timerfd_settime(slideshow_fd,
                                  IF enable THEN SlideshowTime ELSE 0)]

\* reset_state reapplying the scale policy only when keep_zoom is off and
\* the scale is still 0: "&&" for "||".
reset_state_policy_needs_both(c, im, ww, wh) ==
    LET c0 == [c EXCEPT !.frame = 0]
        c1 == IF ~c0.keep_zoom /\ c0.scale = <<0, 1>>
              THEN apply_scale(c0, im, c0.scale_init, ww, wh)
              ELSE LET diff_w == c0.img_w - im.w
                       diff_h == c0.img_h - im.h
                       dx == RDiv(Rat(Floor(RMul(c0.scale, Rat(diff_w)))), Rat(2))
                       dy == RDiv(Rat(Floor(RMul(c0.scale, Rat(diff_h)))), Rat(2))
                   IN  fixup([c0 EXCEPT
                                !.img_x = Trunc(RAdd(Rat(c0.img_x), dx)),
                                !.img_y = Trunc(RAdd(Rat(c0.img_y), dy))],
                             im, TRUE, ww, wh)
        c2 == [c1 EXCEPT !.img_w = im.w, !.img_h = im.h]
        c3 == animation_ctl(c2, im, TRUE)
        c4 == slideshow_ctl(c3, c3.slideshow_enable)
    IN  app_redraw(c4)

\* reset_state keeping the shifted position in keep-zoom mode: the fixup
\* after the footprint shift is not forced.
reset_state_shift_unforced(c, im, ww, wh) ==
    LET c0 == [c EXCEPT !.frame = 0]
        c1 == IF ~c0.keep_zoom \/ c0.scale = <<0, 1>>
              THEN apply_scale(c0, im, c0.scale_init, ww, wh)
              ELSE LET diff_w == c0.img_w - im.w
                       diff_h == c0.img_h - im.h
                       dx == RDiv(Rat(Floor(RMul(c0.scale, Rat(diff_w)))), Rat(2))
                       dy == RDiv(Rat(Floor(RMul(c0.scale, Rat(diff_h)))), Rat(2))
                   IN  fixup([c0 EXCEPT
                                !.img_x = Trunc(RAdd(Rat(c0.img_x), dx)),
                                !.img_y = Trunc(RAdd(Rat(c0.img_y), dy))],
                             im, FALSE, ww, wh)
        c2 == [c1 EXCEPT !.img_w = im.w, !.img_h = im.h]
        c3 == animation_ctl(c2, im, TRUE)
        c4 == slideshow_ctl(c3, c3.slideshow_enable)
    IN  app_redraw(c4)

\* reset_state(): im is the image the fetcher now holds.
reset_state(c, im, ww, wh) ==
    LET c0 == [c EXCEPT !.frame = 0]
        c1 == IF ~c0.keep_zoom \/ c0.scale = <<0, 1>>
              THEN apply_scale(c0, im, c0.scale_init, ww, wh)
              ELSE LET diff_w == c0.img_w - im.w
                       diff_h == c0.img_h - im.h
                       dx == RDiv(Rat(Floor(RMul(c0.scale, Rat(diff_w)))), Rat(2))
                       dy == RDiv(Rat(Floor(RMul(c0.scale, Rat(diff_h)))), Rat(2))
                   IN  fixup([c0 EXCEPT
                                !.img_x = Trunc(RAdd(Rat(c0.img_x), dx)),
                                !.img_y = Trunc(RAdd(Rat(c0.img_y), dy))],
                             im, TRUE, ww, wh)
        c2 == [c1 EXCEPT !.img_w = im.w, !.img_h = im.h]
        c3 == animation_ctl(c2, im, TRUE)
        c4 == slideshow_ctl(c3, c3.slideshow_enable)
    IN  app_redraw(c4)

\* image_list_rand_file: any entry other than index not tried before.
image_list_rand_file(index, tried) ==
    LET rest == Entries \ (tried \cup {index})
    IN  IF rest = {} THEN {IMGLIST_INVALID} ELSE rest

\* The switch of next_image with the last-file case continuing forward.
next_candidate_last_continues_forward(direction, index, tried) ==
    CASE direction = "first_file" -> {<<image_list_first, "next_file">>}
      [] direction = "last_file"  -> {<<image_list_last, "next_file">>}
      [] direction = "prev_dir"   -> {<<image_list_prev_dir(index), direction>>}
      [] direction = "next_dir"   -> {<<image_list_next_dir(index), direction>>}
      [] direction = "prev_file"  -> {<<image_list_prev_file(index), direction>>}
      [] direction = "next_file"  -> {<<image_list_next_file(index), direction>>}
      [] direction = "rand_file"  ->
            {<<j, direction>> : j \in image_list_rand_file(index, tried)}
      [] OTHER -> {<<index, direction>>}

\* One pass through the switch of next_image: the possible pairs
\* <<index, direction>> it leaves.
next_candidate(direction, index, tried) ==
    CASE direction = "first_file" -> {<<image_list_first, "next_file">>}
      [] direction = "last_file"  -> {<<image_list_last, "prev_file">>}
      [] direction = "prev_dir"   -> {<<image_list_prev_dir(index), direction>>}
      [] direction = "next_dir"   -> {<<image_list_next_dir(index), direction>>}
      [] direction = "prev_file"  -> {<<image_list_prev_file(index), direction>>}
      [] direction = "next_file"  -> {<<image_list_next_file(index), direction>>}
      [] direction = "rand_file"  ->
            {<<j, direction>> : j \in image_list_rand_file(index, tried)}
      [] OTHER -> {<<index, direction>>}

\* The do-while loop of next_image: the indices it can end with.
RECURSIVE next_image_loop(_, _, _)
next_image_loop(direction, index, tried) ==
    UNION { IF n[1] = IMGLIST_INVALID THEN {IMGLIST_INVALID}
            ELSE IF fetcher_open(n[1]) THEN {n[1]}
            ELSE next_image_loop(n[2], n[1], tried \cup {n[1]}) :
            n \in next_candidate(direction, index, tried) }

\* next_image calling app_exit itself when the list is exhausted.
next_image_exit_on_exhaustion(c, im, direction, ww, wh) ==
    { IF index = IMGLIST_INVALID
      THEN <<app_exit(c), im, FALSE>>
      ELSE <<reset_state(c, Opened(index), ww, wh), Opened(index), TRUE>> :
      index \in next_image_loop(direction, im.index, {}) }

\* next_image running reset_state before it tests the result of the loop.
next_image_reset_before_test(c, im, direction, ww, wh) ==
    { IF index = IMGLIST_INVALID
      THEN <<reset_state(c, im, ww, wh), im, FALSE>>
      ELSE <<reset_state(c, Opened(index), ww, wh), Opened(index), TRUE>> :
      index \in next_image_loop(direction, im.index, {}) }

\* next_image(direction): the set of <<context, image, result>> it can leave.
next_image(c, im, direction, ww, wh) ==
    { IF index = IMGLIST_INVALID
      THEN <<c, im, FALSE>>
      ELSE <<reset_state(c, Opened(index), ww, wh), Opened(index), TRUE>> :
      index \in next_image_loop(direction, im.index, {}) }

\* The loop of skip_image: the index it ends with.
RECURSIVE skip_loop(_)
skip_loop(index) ==
    IF index # IMGLIST_INVALID /\ ~fetcher_open(index)
    THEN skip_loop(image_list_skip(index)) ELSE index

skip_image(im) == skip_loop(image_list_skip(im.index))

\* next_frame with the backward wrap off by one: "index = img->num_frames".
next_frame_index_wrap_past_end(index, num_frames, forward) ==
    IF forward
    THEN IF index + 1 >= num_frames THEN 0 ELSE index + 1
    ELSE IF index = 0 THEN num_frames ELSE index - 1

\* next_frame(forward): the index it computes.
next_frame_index(index, num_frames, forward) ==
    IF forward
    THEN IF index + 1 >= num_frames THEN 0 ELSE index + 1
    ELSE IF index = 0 THEN num_frames - 1 ELSE index - 1

next_frame(c, im, forward) ==
    LET index == next_frame_index(c.frame, NumFrames(im.index), forward)
    IN  IF index # c.frame THEN app_redraw([c EXCEPT !.frame = index]) ELSE c

\* reload(): <<context, image>>
reload(c, im, ww, wh) ==
    LET index == fetcher_reset(im.index)
    IN  IF index # IMGLIST_INVALID
        THEN <<reset_state(c, Opened(index), ww, wh), Opened(index)>>
        ELSE <<app_exit(c), im>>

\* on_drag with "=" for "+=": the delta is stored, not added.
on_drag_assigning(c, im, dx, dy, ww, wh) ==
    LET moved == [c EXCEPT !.img_x = dx, !.img_y = dy]
    IN  IF moved.img_x # c.img_x \/ moved.img_y # c.img_y
        THEN app_redraw(fixup(moved, im, FALSE, ww, wh))
        ELSE moved

\* on_drag(dx, dy)
on_drag(c, im, dx, dy, ww, wh) ==
    LET moved == [c EXCEPT !.img_x = c.img_x + dx, !.img_y = c.img_y + dy]
    IN  IF moved.img_x # c.img_x \/ moved.img_y # c.img_y
        THEN app_redraw(fixup(moved, im, FALSE, ww, wh))
        ELSE moved

\* on_resize(): the window already has its new size ww x wh.
on_resize(c, im, ww, wh) ==
    reset_state(fixup(c, im, FALSE, ww, wh), im, ww, wh)

(***************************************************************************)
(* The event machine: viewer_handle and the two timer callbacks.  Each     *)
(* action is one event handled to completion.                              *)
(***************************************************************************)
\* Bound on the viewport moves (step, drag, percent zoom, rotation) made
\* since a scale policy was last applied.
MaxMoves == 1

WindowSizes == {<<640, 320>>, <<160, 160>>}

NavActions == {"first_file", "last_file", "prev_dir", "next_dir",
               "prev_file", "next_file", "rand_file"}

StepActions == {"step_left", "step_right", "step_up", "step_down"}

StepParams == {NULL, "50", "1001", "abc"}

ZoomParams == {NULL, "fill", "100", "-50", "900", "-900", "0", "1000", "abc"}

ScaleParams == {"fill", "bogus"}

DragDeltas == {<<0, 0>>, <<48, -16>>, <<-48, 16>>}

\* The state viewer_init leaves, for a configuration (fixed mode, anchor,
\* scale policy, keep-zoom and slideshow flags), a first image and a window.
ViewerInit ==
    /\ img_x = 0 /\ img_y = 0 /\ img_w = 0 /\ img_h = 0
    /\ frame = 0
    /\ scale = <<0, 1>>
    /\ animation_enable = TRUE /\ animation_timer = 0
    /\ slideshow_timer = 0
    /\ pm_w = FrameWidth(current) /\ pm_h = FrameHeight(current)
    /\ exit_req = FALSE /\ redraw = FALSE
    /\ ev = "none"
    /\ moves = 0
    /\ probe = [pc |-> "run", force |-> FALSE]

\* The same with both timers created (timerfd_create returned descriptors).
Constructed ==
    /\ ViewerInit
    /\ animation_fd = 3 /\ slideshow_fd = 4

\* The host delivers a resize (or an activation) before any other event,
\* and no event after app_exit.
Started == ev # "none"

Running == Started /\ ~exit_req

\* The event has been handled: the context is c, the current image im.
Committed(type, c, im, nmoves) ==
    /\ img_x' = c.img_x /\ img_y' = c.img_y
    /\ img_w' = c.img_w /\ img_h' = c.img_h
    /\ frame' = c.frame
    /\ scale_init' = c.scale_init
    /\ keep_zoom' = c.keep_zoom
    /\ scale' = c.scale
    /\ animation_enable' = c.animation_enable
    /\ animation_timer' = c.animation_timer
    /\ slideshow_enable' = c.slideshow_enable
    /\ slideshow_timer' = c.slideshow_timer
    /\ redraw' = c.redraw
    /\ exit_req' = c.exit
    /\ current' = im.index /\ pm_w' = im.w /\ pm_h' = im.h
    /\ ev' = type
    /\ moves' = nmoves
    /\ UNCHANGED <<fixed, position, loadable, animation_fd, slideshow_fd>>

Handled(type, c, im, nmoves) ==
    /\ Committed(type, c, im, nmoves)
    /\ UNCHANGED probe

\* moves after a reset_state: applying the scale policy starts a new count.
AfterReset == IF ~keep_zoom \/ scale = <<0, 1>> THEN 0 ELSE moves

\* apply_action, the navigation case for action type a: the result of
\* next_image is dropped.
NavigateBy(a) ==
    /\ Running
    /\ \E r \in next_image(Ctx, Img, a, wnd_w, wnd_h) :
         Handled(a, r[1], r[2], IF r[3] THEN AfterReset ELSE moves)
    /\ UNCHANGED <<wnd_w, wnd_h>>

Navigate == \E a \in NavActions : NavigateBy(a)

\* apply_action, action_skip_file
SkipFile ==
    /\ Running
    /\ LET index == skip_image(Img)
       IN  IF index # IMGLIST_INVALID
           THEN Handled("skip_file",
                        reset_state(Ctx, Opened(index), wnd_w, wnd_h),
                        Opened(index), AfterReset)
           ELSE Handled("skip_file", app_exit(Ctx), Img, moves)
    /\ UNCHANGED <<wnd_w, wnd_h>>

\* apply_action, action_prev_frame and action_next_frame
FrameStep ==
    /\ Running
    /\ \E a \in {"prev_frame", "next_frame"} :
         Handled(a,
                 next_frame(animation_ctl(Ctx, Img, FALSE), Img,
                            a = "next_frame"),
                 Img, moves)
    /\ UNCHANGED <<wnd_w, wnd_h>>

\* apply_action, action_animation
ToggleAnimation ==
    /\ Running
    /\ Handled("animation", animation_ctl(Ctx, Img, ~animation_enable),
               Img, moves)
    /\ UNCHANGED <<wnd_w, wnd_h>>

\* apply_action, action_slideshow
ToggleSlideshow ==
    /\ Running
    /\ IF slideshow_enable
       THEN Handled("slideshow", slideshow_ctl(Ctx, FALSE), Img, moves)
       ELSE \E r \in next_image(Ctx, Img, "next_file", wnd_w, wnd_h) :
              Handled("slideshow", slideshow_ctl(r[1], r[3]), r[2],
                      IF r[3] THEN AfterReset ELSE moves)
    /\ UNCHANGED <<wnd_w, wnd_h>>

\* apply_action, action_step_left .. action_step_down with parameter params
StepBy(a, params) ==
    /\ Running
    /\ moves < MaxMoves
    /\ Handled(a,
               move_image(Ctx, Img, a \in {"step_left", "step_right"},
                          a \in {"step_left", "step_up"}, params,
                          wnd_w, wnd_h),
               Img, moves + 1)
    /\ UNCHANGED <<wnd_w, wnd_h>>

Step == \E a \in StepActions, params \in StepParams : StepBy(a, params)

\* apply_action, action_zoom with parameter params
ZoomBy(params) ==
    /\ Running
    /\ zoom_percent_ok(params) => moves < MaxMoves
    /\ \E c \in zoom_image(Ctx, Img, params, wnd_w, wnd_h) :
         Handled("zoom", c, Img,
                 IF zoom_percent_ok(params) THEN moves + 1
                 ELSE IF str_index(scale_names, params) >= 0 THEN 0
                 ELSE moves)
    /\ UNCHANGED <<wnd_w, wnd_h>>

Zoom == \E params \in ZoomParams : ZoomBy(params)

\* apply_action, action_scale with parameter params
ScaleBy(params) ==
    /\ Running
    /\ LET c == scale_image(Ctx, Img, params, wnd_w, wnd_h)
       IN  Handled("scale", c, Img, IF c.redraw THEN 0 ELSE moves)
    /\ UNCHANGED <<wnd_w, wnd_h>>

Scale == \E params \in ScaleParams : ScaleBy(params)

\* apply_action, action_keep_zoom
KeepZoom ==
    /\ Running
    /\ Handled("keep_zoom", toggle_keep_zoom(Ctx), Img, moves)
    /\ UNCHANGED <<wnd_w, wnd_h>>

\* apply_action, action_rotate_left and action_rotate_right
Rotate ==
    /\ Running
    /\ moves < MaxMoves
    /\ \E a \in {"rotate_left", "rotate_right"} :
         Handled(a, rotate_image(Ctx, Img, wnd_w, wnd_h), Rotated(Img),
                 moves + 1)
    /\ UNCHANGED <<wnd_w, wnd_h>>

\* apply_action: flips, anti-aliasing and export only redraw.
RedrawOnly ==
    /\ Running
    /\ Handled("redraw_only", app_redraw(Ctx), Img, moves)
    /\ UNCHANGED <<wnd_w, wnd_h>>

\* apply_action: mode switch and exec leave the viewer context alone; so
\* does viewer_handle on event_load (fetcher_attach) and on event_redraw.
NoEffect ==
    /\ Running
    /\ Handled("no_effect", Ctx, Img, moves)
    /\ UNCHANGED <<wnd_w, wnd_h>>

\* apply_action, action_reload
Reload ==
    /\ Running
    /\ LET r == reload(Ctx, Img, wnd_w, wnd_h)
       IN  Handled("reload", r[1], r[2],
                   IF r[1].exit THEN moves ELSE AfterReset)
    /\ UNCHANGED <<wnd_w, wnd_h>>

\* viewer_handle, event_resize: the window takes size w, then on_resize.
Resize ==
    /\ ~exit_req
    /\ \E w \in WindowSizes :
         /\ wnd_w' = w[1] /\ wnd_h' = w[2]
         /\ Handled("resize", on_resize(Ctx, Img, w[1], w[2]), Img, AfterReset)

\* viewer_handle, event_activate
Activate ==
    /\ ~exit_req
    /\ \E i \in Entries :
         LET index == fetcher_reset(i)
         IN  IF index # IMGLIST_INVALID
             THEN Handled("activate",
                          reset_state(Ctx, Opened(index), wnd_w, wnd_h),
                          Opened(index), AfterReset)
             ELSE Handled("activate", app_exit(Ctx), Img, moves)
    /\ UNCHANGED <<wnd_w, wnd_h>>

\* viewer_handle, event_drag with delta d
DragBy(d) ==
    /\ Running
    /\ moves < MaxMoves
    /\ Handled("drag", on_drag(Ctx, Img, d[1], d[2], wnd_w, wnd_h), Img,
               IF d = <<0, 0>> THEN moves ELSE moves + 1)
    /\ UNCHANGED <<wnd_w, wnd_h>>

Drag == \E d \in DragDeltas : DragBy(d)

\* on_animation_timer: the one-shot timer has expired.
AnimationTimer ==
    /\ Running
    /\ animation_timer # 0
    /\ LET c0 == [Ctx EXCEPT !.animation_timer = 0]
       IN  Handled("animation_timer",
                   animation_ctl(next_frame(c0, Img, TRUE), Img, TRUE),
                   Img, moves)
    /\ UNCHANGED <<wnd_w, wnd_h>>

\* on_slideshow_timer: the one-shot timer has expired.
SlideshowTimer ==
    /\ Running
    /\ slideshow_timer # 0
    /\ LET c0 == [Ctx EXCEPT !.slideshow_timer = 0]
       IN  \E r \in next_image(c0, Img, "next_file", wnd_w, wnd_h) :
             Handled("slideshow_timer", slideshow_ctl(r[1], r[3]), r[2],
                     IF r[3] THEN AfterReset ELSE moves)
    /\ UNCHANGED <<wnd_w, wnd_h>>

(***************************************************************************)
(* Spec: navigation, frames and timers.  Any entry of the list may fail to *)
(* load; the host delivers navigation, frame, animation, slideshow,        *)
(* keep-zoom, reload, resize, activate, load and redraw-only events and    *)
(* the timers fire.                                                        *)
(***************************************************************************)
Init ==
    /\ fixed \in BOOLEAN
    /\ scale_init = 0
    /\ keep_zoom = FALSE
    /\ position = "center"
    /\ slideshow_enable \in BOOLEAN
    /\ current \in Entries
    /\ loadable \in [Entries -> BOOLEAN]
    /\ wnd_w = 640 /\ wnd_h = 320
    /\ Constructed

Next ==
    \/ Navigate
    \/ SkipFile
    \/ FrameStep
    \/ ToggleAnimation
    \/ ToggleSlideshow
    \/ KeepZoom
    \/ Reload
    \/ Resize
    \/ Activate
    \/ NoEffect
    \/ RedrawOnly
    \/ AnimationTimer
    \/ SlideshowTimer

Spec == Init /\ [][Next]_vars

(***************************************************************************)
(* SpecView: the viewport.  Every entry loads; the host delivers step,     *)
(* zoom, scale, rotate, drag, resize and next/previous-file events.        *)
(***************************************************************************)
ViewAnchors == {"bottomright"}

\* The configured <<fixed, keep_zoom>> pairs.
ViewConfigs == {<<FALSE, FALSE>>, <<TRUE, FALSE>>, <<FALSE, TRUE>>}

InitView ==
    /\ \E cfg \in ViewConfigs : fixed = cfg[1] /\ keep_zoom = cfg[2]
    /\ scale_init = 0
    /\ position \in ViewAnchors
    /\ slideshow_enable = FALSE
    /\ current = 0
    /\ loadable = [i \in Entries |-> TRUE]
    /\ wnd_w = 640 /\ wnd_h = 320
    /\ Constructed

NextView ==
    \/ Step
    \/ Zoom
    \/ Scale
    \/ Rotate
    \/ Drag
    \/ Resize
    \/ NavigateBy("next_file")
    \/ NavigateBy("prev_file")

SpecView == InitView /\ [][NextView]_vars

(***************************************************************************)
(* SpecDrag: drags in pairs.  The host delivers resize, scale and          *)
(* next-file events, and drags: a drag by d is followed immediately by a   *)
(* drag by -d.  probe records the position the pair started from, d, and   *)
(* what the position fixup of either drag did.                             *)
(***************************************************************************)
DragAnchors == {"center", "bottomright"}

InitDrag ==
    /\ fixed \in BOOLEAN
    /\ scale_init = 0
    /\ keep_zoom = FALSE
    /\ position \in DragAnchors
    /\ slideshow_enable = FALSE
    /\ current = 0
    /\ loadable = [i \in Entries |-> TRUE]
    /\ wnd_w = 640 /\ wnd_h = 320
    /\ Constructed

\* Whether on_drag(dx, dy) runs a fixup whose off-window clamp fires, and
\* whether it runs a fixup that changes the dragged position at all.
DragClamped(dx, dy) ==
    /\ <<dx, dy>> # <<0, 0>>
    /\ ClampFires(img_x + dx, img_y + dy, FALSE, scale, pm_w, pm_h,
                  wnd_w, wnd_h)

DragFixedUp(dx, dy) ==
    /\ <<dx, dy>> # <<0, 0>>
    /\ fixup_position(img_x + dx, img_y + dy, FALSE, scale, pm_w, pm_h,
                      wnd_w, wnd_h) # <<img_x + dx, img_y + dy>>

\* viewer_handle, event_drag: the first drag of a pair.
DragOut ==
    /\ Running
    /\ moves < MaxMoves
    /\ probe.pc # "out"
    /\ \E d \in DragDeltas :
         /\ Committed("drag", on_drag(Ctx, Img, d[1], d[2], wnd_w, wnd_h),
                      Img, moves + 1)
         /\ probe' = [pc |-> "out", force |-> FALSE,
                      x |-> img_x, y |-> img_y, d |-> d,
                      clamped |-> DragClamped(d[1], d[2]),
                      fixed_up |-> DragFixedUp(d[1], d[2])]
    /\ UNCHANGED <<wnd_w, wnd_h>>

\* viewer_handle, event_drag: the second drag of a pair, by the opposite
\* delta.
DragBack ==
    /\ Running
    /\ probe.pc = "out"
    /\ LET dx == -probe.d[1]
           dy == -probe.d[2]
       IN  /\ Committed("drag", on_drag(Ctx, Img, dx, dy, wnd_w, wnd_h),
                        Img, moves)
           /\ probe' = [probe EXCEPT
                          !.pc = "back",
                          !.clamped = probe.clamped \/ DragClamped(dx, dy),
                          !.fixed_up = probe.fixed_up \/ DragFixedUp(dx, dy)]
    /\ UNCHANGED <<wnd_w, wnd_h>>

NextDrag ==
    \/ DragOut
    \/ DragBack
    \/ probe.pc # "out" /\ Resize
    \/ probe.pc # "out" /\ Scale
    \/ probe.pc # "out" /\ NavigateBy("next_file")

SpecDrag == InitDrag /\ [][NextDrag]_vars

(***************************************************************************)
(* SpecShow: what is shown.  Every entry loads; the host delivers step,    *)
(* zoom, scale, rotate, drag, resize, next/previous-file, frame and        *)
(* keep-zoom events with valid parameters, and the animation timer fires.  *)
(***************************************************************************)
ShowZoomParams == {"fill", "100", "-50"}

ShowStepParam == "50"

InitShow ==
    /\ fixed = FALSE
    /\ keep_zoom = FALSE
    /\ scale_init = 0
    /\ position = "center"
    /\ slideshow_enable = FALSE
    /\ current = 0
    /\ loadable = [i \in Entries |-> TRUE]
    /\ wnd_w = 640 /\ wnd_h = 320
    /\ Constructed

NextShow ==
    \/ \E a \in StepActions : StepBy(a, ShowStepParam)
    \/ \E params \in ShowZoomParams : ZoomBy(params)
    \/ ScaleBy("fill")
    \/ Rotate
    \/ DragBy(<<48, -16>>)
    \/ Resize
    \/ NavigateBy("next_file")
    \/ NavigateBy("prev_file")
    \/ FrameStep
    \/ AnimationTimer
    \/ KeepZoom

SpecShow == InitShow /\ [][NextShow]_vars

(***************************************************************************)
(* SpecZoom: the same zoom repeated.  Every entry loads.  Resize, zoom    *)
(* and next-file events bring the viewer to a starting scale; from then on *)
(* the host delivers nothing but zoom +900, or nothing but zoom -900 on a  *)
(* 20x20 image, MaxRepeat times in all.  probe counts the repetitions.     *)
(***************************************************************************)
MaxRepeat == 4

RepeatedZoom == [in |-> "900", out |-> "-900"]

InitZoom ==
    /\ fixed = FALSE
    /\ keep_zoom = FALSE
    /\ scale_init = 0
    /\ position = "center"
    /\ slideshow_enable = FALSE
    /\ current = 0
    /\ loadable = [i \in Entries |-> TRUE]
    /\ wnd_w = 640 /\ wnd_h = 320
    /\ Constructed

\* Whether the host may deliver the repeated zoom of mode.
ZoomAgainEnabled(mode) ==
    /\ Running
    /\ \/ probe.pc = "run"
       \/ probe.pc = mode /\ probe.n < MaxRepeat
    /\ mode = "out" => (pm_w = 20 /\ pm_h = 20)

\* apply_action, action_zoom with the repeated parameter of mode.
ZoomAgain(mode) ==
    /\ ZoomAgainEnabled(mode)
    /\ \E c \in zoom_image(Ctx, Img, RepeatedZoom[mode], wnd_w, wnd_h) :
         Committed("zoom", c, Img, moves)
    /\ probe' = [pc |-> mode, force |-> FALSE,
                 n |-> IF probe.pc = "run" THEN 1 ELSE probe.n + 1]
    /\ UNCHANGED <<wnd_w, wnd_h>>

ZoomInAgain == ZoomAgain("in")

ZoomOutAgain == ZoomAgain("out")

NextZoom ==
    \/ ZoomInAgain
    \/ ZoomOutAgain
    \/ probe.pc = "run" /\ Resize
    \/ probe.pc = "run" /\ \E params \in ShowZoomParams : ZoomBy(params)
    \/ probe.pc = "run" /\ NavigateBy("next_file")

\* The host keeps delivering the repeated zoom while it may: weak fairness
\* of ZoomInAgain and of ZoomOutAgain, WF_vars(A), written out with the
\* enabling condition of the action, ZoomAgainEnabled.
SpecZoom ==
    /\ InitZoom /\ [][NextZoom]_vars
    /\ ([]<>~ZoomAgainEnabled("in") \/ []<><<ZoomInAgain>>_vars)
    /\ ([]<>~ZoomAgainEnabled("out") \/ []<><<ZoomOutAgain>>_vars)

(***************************************************************************)
(* SpecFixup: fixup_position as a function of its inputs.  The initial     *)
(* states draw anchor, fixed mode, force flag, scale, frame size, window   *)
(* size and position from bounded sets; each step runs fixup_position once *)
(* more with the inputs unchanged.                                         *)
(***************************************************************************)
FxWndMax == 5

FxWindow == {FxWndMax - 1, FxWndMax}

FxFrame == {2, 3}

FxScales == {<<0, 1>>, <<1, 1>>, <<3, 2>>, <<3, 1>>}

FxCoord == {-10, -3, -1, 0, 2, FxWndMax + 1}

InitFixup ==
    /\ img_x \in FxCoord /\ img_y \in FxCoord
    /\ img_w = 0 /\ img_h = 0
    /\ frame = 0
    /\ fixed \in BOOLEAN
    /\ scale_init = 0
    /\ keep_zoom = FALSE
    /\ position \in Range(position_names)
    /\ scale \in FxScales
    /\ animation_enable = TRUE /\ animation_timer = 0
    /\ slideshow_enable = FALSE /\ slideshow_timer = 0
    /\ animation_fd = 3 /\ slideshow_fd = 4
    /\ current = 0
    /\ pm_w \in FxFrame /\ pm_h \in FxFrame
    /\ loadable = <<>>
    /\ wnd_w \in FxWindow /\ wnd_h \in FxWindow
    /\ exit_req = FALSE /\ redraw = FALSE
    /\ ev = "none"
    /\ moves = 0
    /\ probe \in [pc : {"in"}, force : BOOLEAN]

FixupStep ==
    /\ probe.pc \in {"in", "once"}
    /\ LET p == fixup_position(img_x, img_y, probe.force, scale,
                               pm_w, pm_h, wnd_w, wnd_h)
       IN  img_x' = p[1] /\ img_y' = p[2]
    /\ probe' = [probe EXCEPT !.pc = IF probe.pc = "in" THEN "once" ELSE "twice"]
    /\ UNCHANGED <<img_w, img_h, frame, fixed, scale_init, keep_zoom, position,
                   scale, animation_enable, animation_timer, slideshow_enable,
                   slideshow_timer, animation_fd, slideshow_fd, env_vars,
                   exit_req, redraw, ev, moves>>

NextFixup == FixupStep

SpecFixup == InitFixup /\ [][NextFixup]_vars

(***************************************************************************)
(* SpecTimers: the events of Spec from every outcome of the two            *)
(* timerfd_create calls of viewer_init: each timer was created, or its     *)
(* descriptor is -1.                                                        *)
(***************************************************************************)
InitTimers ==
    /\ fixed = FALSE
    /\ scale_init = 0
    /\ keep_zoom = FALSE
    /\ position = "center"
    /\ slideshow_enable \in BOOLEAN
    /\ current \in Entries
    /\ loadable \in [Entries -> BOOLEAN]
    /\ wnd_w = 640 /\ wnd_h = 320
    /\ ViewerInit
    /\ animation_fd \in {-1, 3}
    /\ slideshow_fd \in {-1, 4}

SpecTimers == InitTimers /\ [][Next]_vars

(***************************************************************************)
(* SpecScale: set_scale as a function of its inputs.  The initial states   *)
(* draw the policy, the frame size and the window size from bounded sets;  *)
(* the one step runs set_scale for the drawn policy: the scale, then the   *)
(* forced position fixup.                                                  *)
(***************************************************************************)
ScWndMax == 7

ScWindow == (ScWndMax - 3) .. ScWndMax

ScFrame == 1 .. 4

InitScale ==
    /\ img_x = 0 /\ img_y = 0
    /\ img_w = 0 /\ img_h = 0
    /\ frame = 0
    /\ fixed = FALSE
    /\ scale_init \in 0 .. (Len(scale_names) - 1)
    /\ keep_zoom = FALSE
    /\ position = "center"
    /\ scale = <<0, 1>>
    /\ animation_enable = TRUE /\ animation_timer = 0
    /\ slideshow_enable = FALSE /\ slideshow_timer = 0
    /\ animation_fd = 3 /\ slideshow_fd = 4
    /\ current = 0
    /\ pm_w \in ScFrame /\ pm_h \in ScFrame
    /\ loadable = <<>>
    /\ wnd_w \in ScWindow /\ wnd_h \in ScWindow
    /\ exit_req = FALSE /\ redraw = FALSE
    /\ ev = "none"
    /\ moves = 0
    /\ probe = [pc |-> "in"]

PolicyStep ==
    /\ probe.pc = "in"
    /\ LET c == apply_scale(Ctx, Img, scale_init, wnd_w, wnd_h)
       IN  scale' = c.scale /\ img_x' = c.img_x /\ img_y' = c.img_y
    /\ probe' = [probe EXCEPT !.pc = "scaled"]
    /\ UNCHANGED <<img_w, img_h, frame, fixed, scale_init, keep_zoom, position,
                   animation_enable, animation_timer, slideshow_enable,
                   slideshow_timer, animation_fd, slideshow_fd, env_vars,
                   exit_req, redraw, ev, moves>>

NextScale == PolicyStep

SpecScale == InitScale /\ [][NextScale]_vars

(***************************************************************************)
(* Claims about frames and navigation (checked under Spec)                 *)
(***************************************************************************)
\* C1: in every reachable state, after any sequence of navigation and
\* frame-step actions, timer fires, reloads, resizes, activations and
\* loads, the current frame index is strictly less than the number of
\* frames of the current image.
C1_FrameIndexInRange == frame < NumFrames(current)

\* C1 witness: a previous-frame action on the first frame of a three-frame
\* image has wrapped to its last frame.
C1_Witness ==
    /\ ev = "prev_frame" /\ NumFrames(current) = 3
    /\ frame = NumFrames(current) - 1

\* Whether next_image(a) from the current image can only exhaust the list.
Exhausted(a) == next_image_loop(a, current, {}) = {IMGLIST_INVALID}

\* The event being handled is a's, while the viewer runs.
Handles(a) == Running /\ ev' = a

\* The entry points of next_image: the seven navigation actions, the
\* slideshow action switching the slideshow on, and the slideshow timer.
NextImageEvents == NavActions \cup {"slideshow", "slideshow_timer"}

NextImageExhausted(a) ==
    /\ Exhausted(IF a \in NavActions THEN a ELSE "next_file")
    /\ a = "slideshow" => ~slideshow_enable

SkipExhausted == skip_image(Img) = IMGLIST_INVALID

ViewKept ==
    /\ current' = current /\ pm_w' = pm_w /\ pm_h' = pm_h
    /\ img_x' = img_x /\ img_y' = img_y
    /\ scale' = scale
    /\ frame' = frame
    /\ (animation_timer' # 0) = (animation_timer # 0)

\* C5: when a navigation action finds no loadable candidate (every open
\* fails until the list is exhausted), the previously displayed image stays
\* current, and position, scale, frame index and the armed state of the
\* animation timer equal their values before the action.
C5_FailedNavigationKeepsView ==
    [][/\ \A a \in NextImageEvents :
            (Handles(a) /\ NextImageExhausted(a)) => ViewKept
       /\ (Handles("skip_file") /\ SkipExhausted) => ViewKept]_vars

\* C5 witness: next-file has failed on the three-frame image while its last
\* frame was shown; the frame is still shown and nothing was redrawn.
C5_Witness ==
    /\ ev = "next_file" /\ Exhausted("next_file")
    /\ current = 1 /\ frame = 2 /\ ~redraw

(***************************************************************************)
(* Claims about scale and parameters (checked under SpecView)              *)
(***************************************************************************)
\* C3: after any successful scale-policy application (the scale action, the
\* zoom action with a policy name, a reset) and after any successful
\* percent zoom, 0 < scale <= 100.0, for every window and frame size.  Once
\* the first resize has reset the state, the scale is the result of the
\* last of these.
C3_ScaleWithinBounds ==
    Started => (RLt(Rat(0), scale) /\ RLe(scale, Rat(MAX_SCALE)))

InvalidStepParams ==
    {p \in StepParams : /\ p # NULL
                        /\ LET r == str_to_num(p)
                           IN  ~(r[1] /\ r[2] > 0 /\ r[2] <= 1000)}

InvalidZoomParams ==
    {p \in ZoomParams : /\ p # NULL
                        /\ str_index(scale_names, p) < 0
                        /\ ~zoom_percent_ok(p)}

InvalidScaleParams == {p \in ScaleParams : str_index(scale_names, p) < 0}

\* Position, scale, scale policy and frame index are what they were.
ParamsKept ==
    /\ img_x' = img_x /\ img_y' = img_y
    /\ scale' = scale
    /\ scale_init' = scale_init
    /\ frame' = frame

\* C4: an action whose parameter string is invalid (a move step outside
\* 1..1000 or non-numeric, a zoom parameter that is neither a policy name
\* nor an integer in (-1000,1000) other than 0, an unrecognised scale name)
\* aborts with no state change: position, scale, scale policy and frame
\* index are the same after the action as before it.
C4_InvalidParamsChangeNothing ==
    [][/\ \A a \in StepActions, p \in InvalidStepParams :
            StepBy(a, p) => ParamsKept
       /\ \A p \in InvalidZoomParams : ZoomBy(p) => ParamsKept
       /\ \A p \in InvalidScaleParams : ScaleBy(p) => ParamsKept]_vars

(***************************************************************************)
(* Claims about the viewport (checked under SpecView)                      *)
(***************************************************************************)
\* C8: after every event that runs a position fixup (drag with a non-zero
\* delta, step, zoom, rotate, resize, every reset), whatever the fixed
\* mode, -imageWidth <= x <= windowWidth and -imageHeight <= y <=
\* windowHeight, the image size being the current frame size at the current
\* scale.  Once the first resize has been handled every state follows such
\* an event or an event that changes neither position, scale, frame size
\* nor window.
C8_PositionWithinReach ==
    Started =>
        /\ -ScaledSize(scale, pm_w) <= img_x /\ img_x <= wnd_w
        /\ -ScaledSize(scale, pm_h) <= img_y /\ img_y <= wnd_h

\* C8 witness: a drag has pushed a free (non-fixed) image onto the limit:
\* its left edge sits on the window's right edge, where the clamp holds it.
C8_Witness ==
    /\ ev = "drag" /\ ~fixed
    /\ img_x = wnd_w /\ ScaledSize(scale, pm_w) > 0

PercentParams == {p \in ZoomParams : zoom_percent_ok(p)}

\* Where the image-space point that lay under the window centre before the
\* step lies after it, relative to the window centre, on one axis: c and sc
\* are the coordinate and scale before, c2 and sc2 after.
PivotShift(c, c2, wnd, sc, sc2) ==
    LET wnd_half == Norm(wnd, 2)
        pivot    == RDiv(RSub(wnd_half, Rat(c)), sc)
    IN  RSub(RAdd(Rat(c2), RMul(pivot, sc2)), wnd_half)

WithinOnePixel(d) == RLe(Rat(-1), d) /\ RLe(d, Rat(1))

\* The pivot is back under the window centre, within the rounding of the
\* integer position.
PivotKept ==
    /\ WithinOnePixel(PivotShift(img_x, img_x', wnd_w, scale, scale'))
    /\ WithinOnePixel(PivotShift(img_y, img_y', wnd_h, scale, scale'))

\* The position after the step is the one "restore center" computed: the
\* trailing fixup has left it alone.
RestoredKept ==
    /\ img_x' \in zoom_axis(img_x, wnd_w, scale, scale')
    /\ img_y' \in zoom_axis(img_y, wnd_h, scale, scale')

\* C9 as stated: for any starting scale and position and any valid percent,
\* the image-space point under the window centre before zoom_image maps back
\* to the window centre after the call, within the rounding of the integer
\* position.
C9_ZoomKeepsPivot ==
    [][ev' = "zoom" =>
         \A p \in PercentParams : ZoomBy(p) => PivotKept]_vars

\* C9 amended: the same, provided the non-forced fixup that ends zoom_image
\* leaves the restored position alone (no fixed-mode re-anchoring or
\* re-snap, no off-window clamp): a zoom step that ends on the restored
\* position has the pivot back under the window centre, unless it is not
\* the step of a percent zoom.
C9_ZoomKeepsPivotUnlessFixedUp ==
    [][(ev' = "zoom" /\ RestoredKept) =>
         (PivotKept \/ \A p \in PercentParams : ~ZoomBy(p))]_vars

\* C9 witness: a free image filling a 640x320 window at scale 32 was zoomed
\* out by 50% to scale 16; the image point (10, 15) that lay under the
\* window centre (320, 160) is there again: 160 + 10*16, -80 + 15*16.
C9_Witness ==
    /\ ev = "zoom" /\ ~fixed /\ moves = 1
    /\ wnd_w = 640 /\ wnd_h = 320 /\ pm_w = 20 /\ pm_h = 20
    /\ scale = <<16, 1>> /\ img_x = 160 /\ img_y = -80

(***************************************************************************)
(* Claims about drags (checked under SpecDrag)                             *)
(***************************************************************************)
\* The last two events handled were the two drags of a pair.
PairDone == probe.pc = "back" /\ ev = "drag"

\* C10 as stated: a drag by (dx, dy) followed immediately by a drag by
\* (-dx, -dy) restores the original position exactly, for every fixed mode,
\* anchor and image and window size, provided neither intermediate position
\* triggers the off-window clamp of the position fixup.
C10_DragPairRestores ==
    (PairDone /\ ~probe.clamped) =>
        (img_x = probe.x /\ img_y = probe.y)

\* C10 amended: the same, provided the position fixup of neither drag
\* changes the dragged position: neither its off-window clamp nor, in fixed
\* mode, its re-anchoring or its re-snap to the window border.
C10_DragPairRestoresUnlessFixedUp ==
    (PairDone /\ ~probe.fixed_up) =>
        (img_x = probe.x /\ img_y = probe.y)

\* C10 witness: a free image was dragged by a non-zero delta and back, no
\* fixup interfered, and it is where it was.
C10_Witness ==
    /\ PairDone /\ ~probe.fixed_up /\ ~fixed
    /\ probe.d # <<0, 0>>
    /\ img_x = probe.x /\ img_y = probe.y

(***************************************************************************)
(* Claims about fixup_position                                             *)
(***************************************************************************)
\* The per-axis rule of each anchor, as the specification words it.
HRule(pos) ==
    IF pos \in {"left", "topleft", "bottomleft"} THEN "start"
    ELSE IF pos \in {"right", "topright", "bottomright"} THEN "end"
    ELSE "center"

VRule(pos) ==
    IF pos \in {"top", "topleft", "topright"} THEN "start"
    ELSE IF pos \in {"bottom", "bottomleft", "bottomright"} THEN "end"
    ELSE "center"

RulePlace(rule, img_size, wnd_size) ==
    CASE rule = "start"  -> 0
      [] rule = "end"    -> wnd_size - img_size
      [] rule = "center" -> wnd_size \div 2 - img_size \div 2

\* C6: for each of the 9 anchors, both values of fixed mode, and every
\* window size and scaled image size (image larger than window included),
\* a forced position fixup leaves each axis coordinate exactly at the
\* anchor's per-axis rule: start gives 0, end gives window minus image,
\* otherwise centered; the fixed-mode re-snap and the off-window clamp
\* never move it away from that value.
C6_ForcedFixupPlacesAtAnchor ==
    (probe.pc \in {"once", "twice"} /\ probe.force) =>
        /\ img_x = RulePlace(HRule(position), ScaledSize(scale, pm_w), wnd_w)
        /\ img_y = RulePlace(VRule(position), ScaledSize(scale, pm_h), wnd_h)

\* C6 witness: a forced fixup in fixed mode has run on an image wider and
\* taller than the window, anchored to the bottom right, from a position
\* that was elsewhere.
C6_Witness ==
    /\ probe.pc = "once" /\ probe.force /\ fixed
    /\ position = "bottomright"
    /\ ScaledSize(scale, pm_w) > wnd_w /\ ScaledSize(scale, pm_h) > wnd_h
    /\ img_x = wnd_w - ScaledSize(scale, pm_w)
    /\ img_x < 0

\* C7: position fixup is idempotent: for any position, scale, anchor,
\* fixed mode, force flag, window size and frame size, running the fixup a
\* second time with unchanged inputs leaves the position the first run
\* produced.
C7_FixupIdempotent ==
    [][probe.pc = "once" => (img_x' = img_x /\ img_y' = img_y)]_vars

\* C7 witness: a second, non-forced fixup has run after a first one that
\* had clamped an off-window position of a free (non-fixed) image.
C7_Witness ==
    /\ probe.pc = "twice" /\ ~probe.force /\ ~fixed
    /\ img_x = -ScaledSize(scale, pm_w) /\ img_x < 0
    /\ img_y = wnd_h


(***************************************************************************)
(* Claims about the two timers (checked under Spec)                        *)
(***************************************************************************)
\* C11: in every reachable state where the current image has exactly one
\* frame, the animation timer is disarmed, whatever duration that frame
\* stores; this holds after navigation, reload, resize, and after the user
\* toggles animation on.
C11_SingleFrameTimerDisarmed ==
    NumFrames(current) = 1 => animation_timer = 0

\* C11 witness: the animation action has been handled on a one-frame image
\* whose frame stores a nonzero duration, and the timer is disarmed.
C11_Witness ==
    /\ ev = "animation"
    /\ NumFrames(current) = 1
    /\ Duration(current, frame) # 0
    /\ animation_timer = 0
    /\ ~animation_enable

\* C12: when the animation timer fires, the frame index becomes
\* (frame + 1) mod numFrames and the timer is rearmed with the duration of
\* the new current frame; if that duration is 0 the timer is left disarmed
\* and animation stops.
C12_TimerFireAdvancesAndRearms ==
    [][Handles("animation_timer") =>
         /\ frame' = (frame + 1) % NumFrames(current)
         /\ current' = current
         /\ animation_timer' = Duration(current, frame')
         /\ animation_enable' = (Duration(current, frame') # 0)]_vars

\* C12 witness: the timer has fired on the last frame of a three-frame
\* image, the index has wrapped to 0 and the timer is armed with the
\* duration of frame 0.
C12_Witness ==
    /\ ev = "animation_timer"
    /\ NumFrames(current) = 3
    /\ frame = 0
    /\ animation_timer = Duration(current, 0)
    /\ animation_timer # 0

\* C12 witness of the stop: the timer has fired and the new frame stores
\* duration 0, so the timer is disarmed.
C12_WitnessStopped ==
    /\ ev = "animation_timer"
    /\ Duration(current, frame) = 0
    /\ animation_timer = 0
    /\ ~animation_enable


\* The first entry that loads scanning forward (backward) from entry i, or
\* IMGLIST_INVALID when none does.
ScanForward(i) ==
    LET s == {j \in Entries : j >= i /\ loadable[j]}
    IN  IF s = {} THEN IMGLIST_INVALID
        ELSE CHOOSE j \in s : \A k \in s : j <= k

ScanBackward(i) ==
    LET s == {j \in Entries : j <= i /\ loadable[j]}
    IN  IF s = {} THEN IMGLIST_INVALID
        ELSE CHOOSE j \in s : \A k \in s : j >= k

\* C13: when the slideshow timer fires, a next-file navigation is attempted;
\* the slideshow timer is armed again, with the configured duration, if and
\* only if that navigation succeeded, and on exhaustion slideshow mode is
\* disabled and the timer stays disarmed.
C13_SlideshowRearmsIffNavigated ==
    [][Handles("slideshow_timer") =>
         IF ScanForward(current + 1) # IMGLIST_INVALID
         THEN /\ current' = ScanForward(current + 1)
              /\ slideshow_timer' = SlideshowTime
              /\ slideshow_enable'
         ELSE /\ current' = current
              /\ slideshow_timer' = 0
              /\ ~slideshow_enable']_vars

\* C13 witness: the slideshow timer has fired with no entry left that
\* loads; slideshow mode is off and its timer disarmed.
C13_Witness ==
    /\ ev = "slideshow_timer"
    /\ ScanForward(current + 1) = IMGLIST_INVALID
    /\ ~slideshow_enable
    /\ slideshow_timer = 0

\* C13 witness of the rearm: the timer has fired, the navigation skipped an
\* entry that does not load, and the timer is armed again.
C13_WitnessRearmed ==
    /\ ev = "slideshow_timer"
    /\ current = 2 /\ ~loadable[1]
    /\ slideshow_timer = SlideshowTime

\* C14: during the handling of any single event (action, timer fire,
\* resize, drag, activate, load), at most one of the two timers (animation,
\* slideshow) goes from armed to disarmed.
C14_AtMostOneTimerDisarmed ==
    [][~(/\ animation_timer # 0 /\ animation_timer' = 0
         /\ slideshow_timer # 0 /\ slideshow_timer' = 0)]_vars

\* C14 witness: the slideshow timer has fired on an animated image with the
\* list exhausted; the slideshow timer went from armed to disarmed and the
\* animation timer is still armed.
C14_Witness ==
    /\ ev = "slideshow_timer"
    /\ slideshow_timer = 0
    /\ animation_timer # 0

\* Events whose handler may run reset_state.
ResetEvents ==
    NavActions \cup {"skip_file", "slideshow", "slideshow_timer", "reload",
                     "resize", "activate"}

\* C15: a frame-step action (previous-frame or next-frame) disarms the
\* animation timer and moves the frame index by one with wraparound: forward
\* from the last index goes to 0, backward from index 0 goes to
\* numFrames - 1; afterwards, while the timer is disarmed, the frame changes
\* only by a frame step or a reset, and the timer is armed again only by the
\* animation action or a reset.
C15_FrameStepStopsAnimation ==
    [][/\ Handles("next_frame") =>
            /\ animation_timer' = 0 /\ ~animation_enable'
            /\ frame' = IF frame = NumFrames(current) - 1 THEN 0
                        ELSE frame + 1
       /\ Handles("prev_frame") =>
            /\ animation_timer' = 0 /\ ~animation_enable'
            /\ frame' = IF frame = 0 THEN NumFrames(current) - 1
                        ELSE frame - 1
       /\ (animation_timer = 0 /\ frame' # frame) =>
            ev' \in {"prev_frame", "next_frame"} \cup ResetEvents
       /\ (animation_timer = 0 /\ animation_timer' # 0) =>
            ev' \in {"animation"} \cup ResetEvents]_vars

\* C15 witness: a next-frame action on the last frame of a three-frame
\* image has wrapped to frame 0 and left the animation stopped.
C15_Witness ==
    /\ ev = "next_frame"
    /\ NumFrames(current) = 3
    /\ frame = 0
    /\ animation_timer = 0
    /\ ~animation_enable


(***************************************************************************)
(* Claims about the retry policy and the reset (C16 under Spec)            *)
(***************************************************************************)
\* The actions whose retry order the list fixes, and the entry each must
\* end on: the first that loads in the family's direction.
RetryActions ==
    {"first_file", "last_file", "next_file", "prev_file", "skip_file"}

RetryTarget(a) ==
    CASE a = "first_file" -> ScanForward(image_list_first)
      [] a = "last_file"  -> ScanBackward(image_list_last)
      [] a = "next_file"  -> ScanForward(current + 1)
      [] a = "prev_file"  -> ScanBackward(current - 1)
      [] a = "skip_file"  -> ScanForward(current + 1)

\* C16: navigation retries in the direction family's continuation until an
\* open succeeds or the list is exhausted: after a successful first-file
\* action the displayed image is the first loadable entry scanning forward
\* from the first entry; after last-file the first loadable scanning
\* backward from the last; next-file and previous-file continue forward and
\* backward from the failed candidate; skip-current continues forward; no
\* candidate whose open failed is ever displayed.
C16_RetryFollowsFamily ==
    [][/\ \A a \in RetryActions :
            Handles(a) =>
              IF RetryTarget(a) = IMGLIST_INVALID
              THEN current' = current /\ ~redraw'
              ELSE current' = RetryTarget(a) /\ redraw'
       /\ (Running /\ ev' \in NavActions \cup {"skip_file"} /\ redraw') =>
            loadable[current']]_vars

\* C16 witness: a last-file action found the last entry failing to load
\* and went backward past a second failing entry to the first one.
C16_Witness ==
    /\ ev = "last_file" /\ redraw
    /\ ~loadable[ListSize - 1] /\ ~loadable[ListSize - 2]
    /\ current = ListSize - 3

\* C16 witness, forward: a first-file action found the first entry failing
\* to load and displayed the next one.
C16_WitnessForward ==
    /\ ev = "first_file" /\ redraw
    /\ ~loadable[0]
    /\ current = 1


(***************************************************************************)
(* Claims about the reset and the redraw request (checked under SpecShow)  *)
(***************************************************************************)
\* A navigation action of SpecShow has succeeded in this step: next_image
\* ran reset_state, which requests the redraw.
NavSucceeded ==
    Running /\ ev' \in {"next_file", "prev_file"} /\ redraw'

\* C17: after every successful navigation the frame index is 0, and: if
\* keepZoom is false or the scale is the uninitialized value 0, the scale
\* equals the value the current scale policy gives for the new image and
\* window; otherwise (keepZoom true and scale non-zero) the scale is exactly
\* the scale held before the navigation.
C17_ResetAfterNavigation ==
    [][NavSucceeded =>
         /\ frame' = 0
         /\ IF ~keep_zoom \/ scale = <<0, 1>>
            THEN scale' = set_scale(scale_init, pm_w', pm_h', wnd_w, wnd_h)
            ELSE scale' = scale]_vars

\* C17 witness: with keep-zoom on, a next-file action has displayed an
\* image at a scale that is not the one the scale policy gives for it.
C17_Witness ==
    /\ ev = "next_file" /\ redraw
    /\ keep_zoom
    /\ frame = 0
    /\ scale # <<0, 1>>
    /\ scale # set_scale(scale_init, pm_w, pm_h, wnd_w, wnd_h)

\* C17 witness of the policy branch: with keep-zoom off and the fill policy
\* in force, a next-file action has displayed the 40x20 image at the scale
\* the policy gives in the 640x320 window.
C17_WitnessPolicy ==
    /\ ev = "next_file" /\ redraw
    /\ ~keep_zoom
    /\ scale_init = 4
    /\ current = 1 /\ wnd_w = 640
    /\ scale = <<16, 1>>


\* C18: a redraw is requested whenever visible state changes: for every
\* event, if position, scale or frame index after handling the event
\* differs from its value before, then the handler requested a redraw
\* during that event.
C18_VisibleChangeRedraws ==
    [][(img_x' # img_x \/ img_y' # img_y \/ scale' # scale \/ frame' # frame)
         => redraw']_vars

\* C18 witness: a step-up action has moved the image and requested the
\* redraw.
C18_Witness ==
    /\ ev = "step_up"
    /\ redraw
    /\ img_y # (wnd_h - Trunc(RMul(scale, Rat(pm_h)))) \div 2

\* C18 witness of the other side: a frame action on a one-frame image has
\* changed nothing and requested no redraw.
C18_WitnessIdle ==
    /\ ev = "next_frame"
    /\ NumFrames(current) = 1
    /\ ~redraw


(***************************************************************************)
(* Claims about step and zoom arithmetic                                   *)
(***************************************************************************)
\* p percent of a window size.
PercentOf(size, p) == RDiv(RMul(Rat(size), Rat(p)), Rat(100))

\* The positions a step along one axis may end on when the position before
\* the non-forced fixup is d pixels off the old one, in either direction.
StepLands(horizontal, d) ==
    { IF horizontal
      THEN fixup_position(img_x + e, img_y, FALSE, scale, pm_w, pm_h,
                          wnd_w, wnd_h)
      ELSE fixup_position(img_x, img_y + e, FALSE, scale, pm_w, pm_h,
                          wnd_w, wnd_h) : e \in {d, -d} }

\* C19: a step action with a valid percent p in [1,1000] (p = 10 when no
\* parameter is given) changes the position along its axis, before the
\* non-forced fixup, by p percent of the window size on that axis (window
\* width for left/right, window height for up/down), for every window size.
\* The steps of SpecShow carry the valid percent ShowStepParam; the
\* position after the step is the fixup of the position so moved.
C19_StepMovesByPercentOfWindow ==
    [][\A a \in StepActions :
         Handles(a) =>
           LET horizontal == a \in {"step_left", "step_right"}
               p == str_to_num(ShowStepParam)[2]
               d == PercentOf(IF horizontal THEN wnd_w ELSE wnd_h, p)
           IN  /\ d[2] = 1
               /\ <<img_x', img_y'>> \in StepLands(horizontal, d[1])]_vars

\* What move_image computes: the window size is divided by 100 with the
\* remainder dropped before it is multiplied by the percent.
C19_StepMovesByTruncatedHundredth ==
    [][\A a \in StepActions :
         Handles(a) =>
           LET horizontal == a \in {"step_left", "step_right"}
               p == str_to_num(ShowStepParam)[2]
               d == ((IF horizontal THEN wnd_w ELSE wnd_h) \div 100) * p
           IN  <<img_x', img_y'>> \in StepLands(horizontal, d)]_vars


\* C20: zoom clamps converge: from any valid starting scale, repeating
\* zoom +900 eventually reaches scale == 100.0 and stays there; repeating
\* zoom -900 on a 20x20 image reaches scale == 0.5 (10 px minimum / 20 px
\* dimension) and stays there.
C20_ZoomClampsConverge ==
    /\ (probe.pc = "in") ~> [](scale = Rat(MAX_SCALE))
    /\ (probe.pc = "out") ~> [](scale = <<1, 2>>)

\* C20 witness: zoom +900 has been repeated from the scale 1/2 up to the
\* upper threshold.
C20_Witness ==
    /\ probe.pc = "in"
    /\ ev = "zoom"
    /\ scale = Rat(MAX_SCALE)
    /\ moves = 1

\* C20 witness, zooming out: zoom -900 on the 20x20 image has reached the
\* scale 1/2.
C20_WitnessOut ==
    /\ probe.pc = "out"
    /\ ev = "zoom"
    /\ pm_w = 20 /\ pm_h = 20
    /\ scale = <<1, 2>>

(***************************************************************************)
(* Claims about the scale policies as functions (checked under SpecScale)  *)
(***************************************************************************)
\* The scale a policy gives for the frame and window of the state.
PolicyScale(sc) == set_scale(sc, pm_w, pm_h, wnd_w, wnd_h)

\* C21: for every window size and frame size the policy scales satisfy
\* optimal <= 1 and optimal = min(fit, 1); fill >= fit; fit = min(width,
\* height) and fill = max(width, height), where width = windowW / imageW and
\* height = windowH / imageH; real = 1.  The two quotients are compared with
\* the stored scales only where they are floats themselves (dyadic), so that
\* the comparison is with a value the code could have stored.
C21_PolicyScalesAreWindowOverFrame ==
    LET width  == Norm(wnd_w, pm_w)
        height == Norm(wnd_h, pm_h)
    IN  (probe.pc = "scaled" /\ IsDyadic(width) /\ IsDyadic(height)) =>
            /\ scale = PolicyScale(scale_init)
            /\ RLe(PolicyScale(0), Rat(1))
            /\ PolicyScale(0) = RMin(PolicyScale(1), Rat(1))
            /\ RLe(PolicyScale(1), PolicyScale(4))
            /\ PolicyScale(2) = width
            /\ PolicyScale(3) = height
            /\ PolicyScale(1) = RMin(width, height)
            /\ PolicyScale(4) = RMax(width, height)
            /\ PolicyScale(5) = Rat(1)

\* C21, what the code keeps for every size: the same relations with width
\* and height read as the scales of the width and height policies,
\* 1.0 / ((float)imageW / windowW) and 1.0 / ((float)imageH / windowH).
C21_PolicyScalesRelated ==
    probe.pc = "scaled" =>
        /\ scale = PolicyScale(scale_init)
        /\ RLe(PolicyScale(0), Rat(1))
        /\ PolicyScale(0) = RMin(PolicyScale(1), Rat(1))
        /\ RLe(PolicyScale(1), PolicyScale(4))
        /\ PolicyScale(1) = RMin(PolicyScale(2), PolicyScale(3))
        /\ PolicyScale(4) = RMax(PolicyScale(2), PolicyScale(3))
        /\ PolicyScale(5) = Rat(1)

\* The width policy applied to a frame 1 pixel wide in a window 7 pixels
\* wide: the stored scale is 14680063 / 2^21, one float below 7, and the
\* scaled frame is 6 pixels wide.
C21_WidthBelowQuotient ==
    /\ probe.pc = "scaled" /\ scale_init = 2
    /\ pm_w = 1 /\ wnd_w = 7
    /\ scale = <<14680063, 2097152>>
    /\ ScaledSize(scale, pm_w) = 6

(***************************************************************************)
(* Claims about the position after a reset (checked under SpecView)        *)
(***************************************************************************)
\* A step in which reset_state ran: a navigation, reload, activation or
\* resize that ended with the redraw request of reset_state and no exit.
ResetDone ==
    /\ ~exit_req
    /\ ev' \in NavActions \cup {"reload", "activate", "resize"}
    /\ redraw' /\ ~exit_req'

\* Positions a forced fixup is started from.
AnyStart == {<<-1000, 1000>>, <<0, 0>>, <<1000, -1000>>}

\* The anchor placement of the frame in the state after the step.
AnchorPlace ==
    << RulePlace(HRule(position), ScaledSize(scale', pm_w'), wnd_w'),
       RulePlace(VRule(position), ScaledSize(scale', pm_h'), wnd_h') >>

\* C22: after every reset (successful navigation, reload, activate, resize)
\* the position is the forced-fixup anchor placement of the new first frame
\* at the resulting scale, with keepZoom off and with keepZoom on: the
\* footprint shift of keepZoom mode has no effect on the final position,
\* which does not depend on the position held before the reset.
C22_ResetPlacesAtAnchor ==
    [][ResetDone =>
         /\ frame' = 0
         /\ <<img_x', img_y'>> = AnchorPlace
         /\ \A p \in AnyStart :
               fixup_position(p[1], p[2], TRUE, scale', pm_w', pm_h',
                              wnd_w', wnd_h') = <<img_x', img_y'>>]_vars

\* C22 witness: with keep-zoom on and a scale the policy did not give, a
\* next-file action has displayed the 40x20 image after the 20x20 one (the
\* footprint shift is not zero) in bottom-right fixed mode.
C22_Witness ==
    /\ ev = "next_file" /\ redraw
    /\ keep_zoom /\ moves > 0
    /\ current = 1
    /\ FrameWidth(0) # FrameWidth(1)
    /\ scale # <<0, 1>>
    /\ scale # set_scale(scale_init, pm_w, pm_h, wnd_w, wnd_h)
    /\ position = "bottomright"
    /\ img_x = wnd_w - ScaledSize(scale, pm_w)

\* C22 witness with keep-zoom off: a resize to the 160x160 window has put
\* the frame at the anchor.
C22_WitnessResize ==
    /\ ev = "resize" /\ redraw
    /\ ~keep_zoom
    /\ wnd_w = 160
    /\ img_x = wnd_w - ScaledSize(scale, pm_w)
    /\ img_y = wnd_h - ScaledSize(scale, pm_h)

(***************************************************************************)
(* Claims about the direction of percent zoom (checked under SpecView)     *)
(***************************************************************************)
\* The scales zoom_image(params) can leave from the state.
ZoomedScales(params) ==
    {c.scale : c \in zoom_image(Ctx, Img, params, wnd_w, wnd_h)}

\* A state in which a percent zoom may be handled.
PercentZoomReady == Running /\ moves < MaxMoves /\ scale # <<0, 1>>

\* C23: percent zoom is monotone in its sign: for every frame size and every
\* starting scale reachable by policies or zooms, zoom_image with a negative
\* percent never leaves the scale larger than it was, and zoom_image with a
\* positive percent never leaves it smaller than it was.
C23_PercentZoomMonotone ==
    PercentZoomReady =>
        \A params \in PercentParams :
            \A sc \in ZoomedScales(params) :
                IF str_to_num(params)[2] < 0
                THEN RLe(sc, scale)
                ELSE RLe(scale, sc)

\* C23, what the code keeps: the zoom is monotone from every scale between
\* the frame's lower threshold max(MIN_SCALE / width, MIN_SCALE / height)
\* and MAX_SCALE.
C23_PercentZoomMonotoneWithinThresholds ==
    (/\ PercentZoomReady
     /\ RLe(zoom_scale(Rat(0), -1, pm_w, pm_h), scale)
     /\ RLe(scale, Rat(MAX_SCALE))) =>
        \A params \in PercentParams :
            \A sc \in ZoomedScales(params) :
                IF str_to_num(params)[2] < 0
                THEN RLe(sc, scale)
                ELSE RLe(scale, sc)

\* The 5x5 frame at the scale 1 of the optimal policy, from which the zoom
\* by -50 percent stores the lower threshold 2.
C23_ZoomOutEnlarges ==
    /\ PercentZoomReady
    /\ pm_w = 5 /\ pm_h = 5
    /\ scale = <<1, 1>>
    /\ ZoomedScales("-50") = {<<2, 1>>}

\* The 5x5 frame at the scale 128 of the fill policy, from which the zoom
\* by 100 percent stores MAX_SCALE.
C23_ZoomInShrinks ==
    /\ PercentZoomReady
    /\ pm_w = 5 /\ pm_h = 5
    /\ scale = <<128, 1>>
    /\ ZoomedScales("100") = {Rat(MAX_SCALE)}

(***************************************************************************)
(* Claims about timers and their flags (checked under SpecTimers)          *)
(***************************************************************************)
\* reset_state has run: it alone stores the frame size in img_w.
AfterFirstReset == img_w # 0

\* C24: in every state reached after the first reset each timer's armed
\* state agrees with its enable flag: the animation timer is armed if and
\* only if animation_enable is true, and the slideshow timer is armed if and
\* only if slideshow_enable is true, under any interleaving of actions
\* (animation toggle, slideshow toggle, frame steps, navigation, reload),
\* timer fires and resizes.
C24_TimersAgreeWithFlags ==
    AfterFirstReset =>
        /\ (animation_timer # 0) <=> animation_enable
        /\ (slideshow_timer # 0) <=> slideshow_enable

\* C24 as it holds: after the first reset each timer that viewer_init
\* created is armed if and only if its flag is true, and a timer whose
\* creation failed is never armed, whatever its flag.
C24_CreatedTimersAgreeWithFlags ==
    AfterFirstReset =>
        /\ animation_fd # -1 => ((animation_timer # 0) <=> animation_enable)
        /\ slideshow_fd # -1 => ((slideshow_timer # 0) <=> slideshow_enable)
        /\ animation_fd = -1 => animation_timer = 0
        /\ slideshow_fd = -1 => slideshow_timer = 0

\* C24 witness: the animation timer has fired and is armed again with its
\* flag true, while the slideshow timer was not created and is disarmed
\* with its flag true.
C24_Witness ==
    /\ AfterFirstReset
    /\ ev = "animation_timer"
    /\ animation_fd # -1 /\ animation_enable /\ animation_timer # 0
    /\ slideshow_fd = -1 /\ slideshow_enable /\ slideshow_timer = 0

\* C24 witness with both timers created: the slideshow action has stopped
\* the slideshow (flag false, timer disarmed) while the animation runs.
C24_WitnessCreated ==
    /\ AfterFirstReset
    /\ ev = "slideshow"
    /\ animation_fd # -1 /\ slideshow_fd # -1
    /\ ~slideshow_enable /\ slideshow_timer = 0
    /\ animation_enable /\ animation_timer # 0

==========================================================================
